---- MODULE Spec2Model ----
(***************************************************************************)
(* Disk Usage Visualizer (src/src/main.rs): the update loop of             *)
(* DiskVisualizer, the background scan thread each Scan spawns, the        *)
(* command futures that carry results back to the update loop, and the     *)
(* parallel collection of one volume's files.                              *)
(*                                                                         *)
(* The specifications share the variables:                                 *)
(*   Spec         the application: update(), scan threads, futures.  A     *)
(*                thread's walk of its volumes touches nothing shared, so  *)
(*                it is one step (ThreadScan) that draws, for every        *)
(*                volume, any order in which the workers may have          *)
(*                appended.                                                *)
(*   SpecCollect  the walk of ONE volume at the grain of the workers:      *)
(*                taking an entry from the bridged iterator, stat, lock,   *)
(*                push, join, sort.                                        *)
(*   SpecView     view() over a stored report: the filter, the ranking     *)
(*                and the rows it renders.                                 *)
(*   SpecExport   the application with the export functions at the grain   *)
(*                of their writes: what each export has written, beside    *)
(*                the report that was stored when it was requested.        *)
(*   SpecLive     the scans of the running application under fair          *)
(*                scheduling of the threads, the futures and the update    *)
(*                loop.                                                    *)
(*                                                                         *)
(* Numbers: an f64 obtained by dividing an integer by a constant is held   *)
(* exactly as the fraction [num, den]; Option<T> is <<>> or <<x>>.         *)
(***************************************************************************)
EXTENDS Integers, Sequences, FiniteSets, TLC

\* ------------------------------------------------------------- bounds
MaxScans == 2
MaxTicks == 2
MaxExports == 1
MaxDuration == 1
MaxEntries == 3
MaxWorkers == 2
MaxLen == 1
MaxFiles == 6

\* ------------------------------------------------- program constants
\* bytes per GiB (lines 104-105) and per MiB (line 120)
GiB == 1073741824
MiB == 1048576

\* entries shown per volume (line 257)
Top == 5

\* the size, in MB, from which a file is shown in GB (line 261), and the
\* divisor that makes it GB (line 262)
GBThreshold == 1000
KiB == 1024

\* usage as a percentage (line 237)
Percent == 100

ScanFailedMessage == "Failed to retrieve disk information"

\* ------------------------------------------------------------ options
None == <<>>

Some(x) == <<x>>

\* -------------------------------------------------------------- f64
Ratio(n, d) == [num |-> n, den |-> d]

\* a > 0.0
Positive(a) == a.num > 0

\* b.partial_cmp(&a) is Less or Equal, i.e. b <= a (denominators positive)
Leq(b, a) ==
    IF a.den = b.den THEN b.num <= a.num
    ELSE b.num * a.den <= a.num * b.den

\* ---------------------------------------------------- the file system
\* One item of WalkDir's iterator: walk_ok is FALSE for an Err item;
\* stat_ok is the outcome of fs::metadata on its path; is_file and len are
\* what the metadata says.
Entry(path, walk_ok, stat_ok, is_file, len) ==
    [path |-> path, walk_ok |-> walk_ok, stat_ok |-> stat_ok,
     is_file |-> is_file, len |-> len]

FileInfo(path, len) == [path |-> path, size_mb |-> Ratio(len, MiB)]

\* The entries whose closure body reaches the push (lines 113-123).
Pushes(e) == e.walk_ok /\ e.stat_ok /\ e.is_file

TreeA ==
    << Entry(<<"r">>, TRUE, TRUE, FALSE, 0),
       Entry(<<"r", "a">>, TRUE, TRUE, TRUE, 1),
       Entry(<<"r", "e">>, FALSE, FALSE, FALSE, 0),
       Entry(<<"r", "b">>, TRUE, TRUE, TRUE, 3),
       Entry(<<"r", "c">>, TRUE, FALSE, TRUE, 5) >>

TreeE == << Entry(<<"s">>, TRUE, TRUE, FALSE, 0) >>

\* What sysinfo reports of one disk, and the tree under its mount point.
Volume(name, total, available, tree) ==
    [name |-> name, total |-> total, available |-> available, tree |-> tree]

VolumePool ==
    { Volume("A", 8, 4, TreeA),
      Volume("Z", 0, 0, TreeA),
      Volume("E", 4, 4, TreeE) }

\* system.disks(): what one enumeration may return, any list of different
\* disks of the pool, in any order.
SystemDisks ==
    { s \in UNION { [1..n -> VolumePool] : n \in 0..Cardinality(VolumePool) } :
        \A a, b \in 1..Len(s) : s[a] = s[b] => a = b }

Durations == 1..MaxDuration

\* ---------------------------------------------------------- the sort
\* InsertBySize with the comparison turned round (a against b): ascending.
RECURSIVE InsertBySize_Mutant(_, _)
InsertBySize_Mutant(x, s) ==
    IF s = <<>> THEN <<x>>
    ELSE IF Leq(Head(s).size_mb, x.size_mb)
         THEN <<Head(s)>> \o InsertBySize_Mutant(x, Tail(s))
         ELSE <<x>> \o s

\* files.sort_by(|a, b| b.size_mb.partial_cmp(&a.size_mb).unwrap()): a
\* stable sort; x goes after every element that is not smaller than it.
RECURSIVE InsertBySize(_, _)
InsertBySize(x, s) ==
    IF s = <<>> THEN <<x>>
    ELSE IF Leq(x.size_mb, Head(s).size_mb)
         THEN <<Head(s)>> \o InsertBySize(x, Tail(s))
         ELSE <<x>> \o s

RECURSIVE SortBySizeDesc(_)
SortBySizeDesc(s) ==
    IF s = <<>> THEN <<>>
    ELSE InsertBySize(s[Len(s)], SortBySizeDesc(SubSeq(s, 1, Len(s) - 1)))

\* ----------------------------------------------- one volume, summarised
\* The FileInfo values the walk of tree pushes.
PushedInfos(tree) ==
    { FileInfo(tree[k].path, tree[k].len) : k \in { j \in 1..Len(tree) : Pushes(tree[j]) } }

\* The buffers the parallel for_each may leave: each pushed value once, in
\* any order (SpecCollect checks this against the workers' steps).
AppendOrders(tree) ==
    LET infos == PushedInfos(tree)
        n == Cardinality(infos)
    IN { s \in [1..n -> infos] : \A a, b \in 1..n : s[a] = s[b] => a = b }

DiskInfo(disk, files) ==
    [name |-> disk.name,
     total_space |-> Ratio(disk.total, GiB),
     used_space |-> Ratio(disk.total - disk.available, GiB),
     files |-> files]

\* ScanLoop without the capacity guard: a report for every disk.
RECURSIVE ScanLoop_Mutant(_, _, _)
ScanLoop_Mutant(sys, k, disks) ==
    IF k > Len(sys) THEN {disks}
    ELSE UNION { ScanLoop_Mutant(sys, k + 1,
                                 Append(disks, DiskInfo(sys[k], SortBySizeDesc(buf)))) :
                 buf \in AppendOrders(sys[k].tree) }

\* The per-disk loop from disk k on, disks being the vector built so far:
\* the set of vectors it may end with.
RECURSIVE ScanLoop(_, _, _)
ScanLoop(sys, k, disks) ==
    IF k > Len(sys) THEN {disks}
    ELSE IF Positive(Ratio(sys[k].total, GiB))
         THEN UNION { ScanLoop(sys, k + 1,
                               Append(disks, DiskInfo(sys[k], SortBySizeDesc(buf)))) :
                      buf \in AppendOrders(sys[k].tree) }
         ELSE ScanLoop(sys, k + 1, disks)

\* ------------------------------------------------------------ results
OkScan(disks, duration) ==
    [ok |-> TRUE, disks |-> disks, duration |-> duration, err |-> ""]

Err(e) == [ok |-> FALSE, disks |-> <<>>, duration |-> 0, err |-> e]

OkUnit == [ok |-> TRUE, disks |-> <<>>, duration |-> 0, err |-> ""]

\* Outcome failing as well when no report holds a file.
Outcome_Mutant(disks, duration) ==
    IF disks = <<>> \/ (\A k \in 1..Len(disks) : disks[k].files = <<>>)
    THEN Err(ScanFailedMessage)
    ELSE OkScan(disks, duration)

\* Outcome that sends Ok whatever the vector holds.
Outcome_NeverFails(disks, duration) == OkScan(disks, duration)

\* What the thread sends (lines 142-146).
Outcome(disks, duration) ==
    IF disks = <<>> THEN Err(ScanFailedMessage) ELSE OkScan(disks, duration)

ExportErrors == {"export failed"}

ExtFilters == { <<>>, <<"b">> }

NameFilters == { <<>>, <<"a">> }

\* -------------------------------------------------------------- state
VARIABLES
    disks, scanning, error_message, scan_duration, scan_count,
    file_type_filter, file_name_filter, elapsed_time,
    pipe, chan, fut, inbox, exports, n_cmds,
    stopped, delivered,
    tree, walk, worker, lock, files, cpc,
    shown, requested, written

ui == <<disks, scanning, error_message, scan_duration,
        file_type_filter, file_name_filter, elapsed_time>>

bg == <<pipe, chan, fut>>

collect == <<tree, walk, worker, lock, files, cpc>>

derived == <<shown, requested, written>>

vars == <<disks, scanning, error_message, scan_duration, scan_count,
          file_type_filter, file_name_filter, elapsed_time,
          pipe, chan, fut, inbox, exports, n_cmds, stopped, delivered,
          tree, walk, worker, lock, files, cpc,
          shown, requested, written>>

ScanIds == 1..MaxScans

Workers == 1..MaxWorkers

\* The threads spawned so far.
Launched == { i \in ScanIds : pipe[i].pc # "idle" }

\* Scan i is in flight: spawned, and its Scanned message not yet handled.
InFlight(i) == pipe[i].pc # "idle" /\ delivered[i] = 0

PendingScans == { m \in inbox : m.msg = "Scan" }

\* What an export that has not opened its file has written.
Unwritten == [pc |-> "none", format |-> "", body |-> <<>>]

\* A thread: where it is, the disks it enumerated, the result it built.
IdlePipe == [pc |-> "idle", sys |-> <<>>, result |-> OkUnit]

IdleWorker == [pc |-> "idle", entry |-> Entry(<<>>, FALSE, FALSE, FALSE, 0)]

\* DiskVisualizer::new, no thread, no command.
InitApp ==
    /\ disks = <<>>
    /\ scanning = FALSE
    /\ error_message = None
    /\ scan_duration = None
    /\ scan_count = 0
    /\ file_type_filter = <<>>
    /\ file_name_filter = <<>>
    /\ elapsed_time = 0
    /\ pipe = [i \in ScanIds |-> IdlePipe]
    /\ chan = [i \in ScanIds |-> <<>>]
    /\ fut = [i \in ScanIds |-> "none"]
    /\ inbox = {}
    /\ exports = {}
    /\ n_cmds = 0
    /\ stopped = {}
    /\ delivered = [i \in ScanIds |-> 0]

NoCollect ==
    /\ tree = <<>>
    /\ walk = <<>>
    /\ worker = [w \in Workers |-> IdleWorker]
    /\ lock = 0
    /\ files = <<>>
    /\ cpc = "off"

\* Nothing rendered, no export requested, nothing written.
NoDerived ==
    /\ shown = <<>>
    /\ requested = <<>>
    /\ written = [k \in 1..MaxExports |-> Unwritten]

Init == InitApp /\ NoCollect /\ NoDerived

\* ------------------------------------------------- update(): Scan
\* UpdateScan that leaves the previous error in its slot.
UpdateScan_Mutant ==
    LET i == Cardinality(Launched) + 1 IN
    /\ scanning' = TRUE
    /\ elapsed_time' = 0
    /\ scan_duration' = None
    /\ pipe' = [pipe EXCEPT ![i] = [IdlePipe EXCEPT !.pc = "spawned"]]
    /\ fut' = [fut EXCEPT ![i] = "waiting"]
    /\ UNCHANGED <<disks, error_message, scan_count, file_type_filter,
                   file_name_filter, chan, exports, n_cmds, stopped, delivered>>

\* Lines 89-153.  The thread is spawned and the command that waits on its
\* channel is returned; nothing is awaited.
UpdateScan ==
    LET i == Cardinality(Launched) + 1 IN
    /\ scanning' = TRUE
    /\ elapsed_time' = 0
    /\ error_message' = None
    /\ scan_duration' = None
    /\ pipe' = [pipe EXCEPT ![i] = [IdlePipe EXCEPT !.pc = "spawned"]]
    /\ fut' = [fut EXCEPT ![i] = "waiting"]
    /\ UNCHANGED <<disks, scan_count, file_type_filter, file_name_filter,
                   chan, exports, n_cmds, stopped, delivered>>

\* The Scan button.
Scan ==
    /\ Cardinality(Launched) + Cardinality(PendingScans) < MaxScans
    /\ UpdateScan
    /\ UNCHANGED inbox

\* The Scan message a Refresh command produced.
ScanFromRefresh ==
    /\ \E m \in PendingScans : inbox' = inbox \ {m}
    /\ UpdateScan

\* ------------------------------------------------- the scan thread
\* ThreadScan that stores 1 in the counter instead of adding 1 to it.
ThreadScan_Mutant(i) ==
    /\ pipe[i].pc = "spawned"
    /\ \E sys \in SystemDisks :
       \E ds \in ScanLoop(sys, 1, <<>>) :
       \E duration \in Durations :
          pipe' = [pipe EXCEPT ![i] = [pc |-> "counted", sys |-> sys,
                                      result |-> Outcome(ds, duration)]]
    /\ scan_count' = 1
    /\ UNCHANGED <<ui, chan, fut, inbox, exports,
                   n_cmds, stopped, delivered>>

\* Lines 99-140: enumerate the disks, walk each, take the duration; none of
\* it touches shared state until the closing fetch_add(1, SeqCst) on the
\* scan counter, which ends the step.
ThreadScan(i) ==
    /\ pipe[i].pc = "spawned"
    /\ \E sys \in SystemDisks :
       \E ds \in ScanLoop(sys, 1, <<>>) :
       \E duration \in Durations :
          pipe' = [pipe EXCEPT ![i] = [pc |-> "counted", sys |-> sys,
                                      result |-> Outcome(ds, duration)]]
    /\ scan_count' = scan_count + 1
    /\ UNCHANGED <<ui, chan, fut, inbox, exports,
                   n_cmds, stopped, delivered>>

\* ThreadSend that sends a success only: a failed scan ends silently.
ThreadSend_Mutant(i) ==
    /\ pipe[i].pc = "counted"
    /\ chan' = [chan EXCEPT ![i] = IF pipe[i].result.ok
                                   THEN Append(@, pipe[i].result) ELSE @]
    /\ pipe' = [pipe EXCEPT ![i] = [IdlePipe EXCEPT !.pc = "sent"]]
    /\ UNCHANGED <<ui, scan_count, fut, inbox, exports, n_cmds,
                   stopped, delivered>>

\* Lines 142-147: tx.send of the one result, which moves it into the
\* channel; the thread ends and its locals are gone.
ThreadSend(i) ==
    /\ pipe[i].pc = "counted"
    /\ chan' = [chan EXCEPT ![i] = Append(@, pipe[i].result)]
    /\ pipe' = [pipe EXCEPT ![i] = [IdlePipe EXCEPT !.pc = "sent"]]
    /\ UNCHANGED <<ui, scan_count, fut, inbox, exports, n_cmds,
                   stopped, delivered>>

\* Recv that reads the result without taking it, and stays pending.
Recv_Mutant(i) ==
    /\ fut[i] = "waiting"
    /\ chan[i] # <<>>
    /\ inbox' = inbox \cup {[msg |-> "Scanned", id |-> i, result |-> Head(chan[i])]}
    /\ UNCHANGED <<ui, scan_count, pipe, chan, fut, exports, n_cmds,
                   stopped, delivered>>

\* Lines 149-152: the command's future takes the result off the channel
\* and resolves to Message::Scanned(result).
Recv(i) ==
    /\ fut[i] = "waiting"
    /\ chan[i] # <<>>
    /\ chan' = [chan EXCEPT ![i] = Tail(@)]
    /\ fut' = [fut EXCEPT ![i] = "resolved"]
    /\ inbox' = inbox \cup {[msg |-> "Scanned", id |-> i, result |-> Head(chan[i])]}
    /\ UNCHANGED <<ui, scan_count, pipe, exports, n_cmds,
                   stopped, delivered>>

\* ------------------------------------------------- update(): the rest
\* StopScan that resets the elapsed time as well.
StopScan_Mutant ==
    /\ scanning' = FALSE
    /\ elapsed_time' = 0
    /\ stopped' = stopped \cup { i \in ScanIds : InFlight(i) }
    /\ UNCHANGED <<disks, error_message, scan_duration, scan_count,
                   file_type_filter, file_name_filter,
                   bg, inbox, exports, n_cmds, delivered>>

\* Lines 154-157.
StopScan ==
    /\ scanning' = FALSE
    /\ stopped' = stopped \cup { i \in ScanIds : InFlight(i) }
    /\ UNCHANGED <<disks, error_message, scan_duration, scan_count,
                   file_type_filter, file_name_filter, elapsed_time,
                   bg, inbox, exports, n_cmds, delivered>>

\* Lines 158-170.
Scanned(m) ==
    /\ m \in inbox
    /\ m.msg = "Scanned"
    /\ inbox' = inbox \ {m}
    /\ delivered' = [delivered EXCEPT ![m.id] = @ + 1]
    /\ scanning' = FALSE
    /\ IF m.result.ok
       THEN /\ disks' = m.result.disks
            /\ scan_duration' = Some(m.result.duration)
            /\ UNCHANGED error_message
       ELSE /\ error_message' = Some(m.result.err)
            /\ UNCHANGED <<disks, scan_duration>>
    /\ UNCHANGED <<scan_count, file_type_filter, file_name_filter,
                   elapsed_time, bg, exports, n_cmds, stopped>>

\* Tick that counts whether or not a scan is running.
Tick_Mutant ==
    /\ elapsed_time < MaxTicks
    /\ elapsed_time' = elapsed_time + 1
    /\ UNCHANGED <<disks, scanning, error_message, scan_duration, scan_count,
                   file_type_filter, file_name_filter, bg, inbox,
                   exports, n_cmds, stopped, delivered>>

\* Lines 171-176.  The subscription (lines 332-338) emits ticks while
\* scanning, and one already emitted may be handled after the flag has
\* cleared, so a tick may arrive in any state.
Tick ==
    /\ elapsed_time < MaxTicks
    /\ elapsed_time' = IF scanning THEN elapsed_time + 1 ELSE elapsed_time
    /\ UNCHANGED <<disks, scanning, error_message, scan_duration, scan_count,
                   file_type_filter, file_name_filter, bg, inbox,
                   exports, n_cmds, stopped, delivered>>

\* Lines 177-184: the report is cloned into the export command.
Export(format) ==
    /\ n_cmds < MaxExports
    /\ n_cmds' = n_cmds + 1
    /\ exports' = exports \cup {[id |-> n_cmds + 1, format |-> format, disks |-> disks]}
    /\ UNCHANGED <<ui, scan_count, bg, inbox, stopped, delivered>>

ExportAsJson == Export("json")

ExportAsCsv == Export("csv")

\* Lines 341-361 as seen from update(): the command runs the export on its
\* clone and resolves to Message::ExportCompleted(result).
RunExport(x) ==
    /\ x \in exports
    /\ exports' = exports \ {x}
    /\ \E r \in {OkUnit} \cup { Err(e) : e \in ExportErrors } :
          inbox' = inbox \cup {[msg |-> "ExportCompleted", id |-> x.id, result |-> r]}
    /\ UNCHANGED <<ui, scan_count, bg, n_cmds, stopped, delivered>>

\* ExportCompleted that writes the slot on failure only.
ExportCompleted_Mutant(m) ==
    /\ m \in inbox
    /\ m.msg = "ExportCompleted"
    /\ inbox' = inbox \ {m}
    /\ error_message' = IF m.result.ok THEN error_message ELSE Some(m.result.err)
    /\ UNCHANGED <<disks, scanning, scan_duration, scan_count,
                   file_type_filter, file_name_filter, elapsed_time,
                   bg, exports, n_cmds, stopped, delivered>>

\* Lines 185-188: error_message = result.err().
ExportCompleted(m) ==
    /\ m \in inbox
    /\ m.msg = "ExportCompleted"
    /\ inbox' = inbox \ {m}
    /\ error_message' = IF m.result.ok THEN None ELSE Some(m.result.err)
    /\ UNCHANGED <<disks, scanning, scan_duration, scan_count,
                   file_type_filter, file_name_filter, elapsed_time,
                   bg, exports, n_cmds, stopped, delivered>>

\* Lines 189-191: std::process::exit(0).  The process ends with every
\* variable as it is and no step follows: the behaviour that stutters
\* for ever from here on.
Done == UNCHANGED <<ui, scan_count, bg, inbox, exports, n_cmds, stopped, delivered>>

\* Lines 192-195: the returned command resolves at once to Message::Scan.
Refresh ==
    /\ Cardinality(Launched) + Cardinality(PendingScans) < MaxScans
    /\ scan_duration' = None
    /\ inbox' = inbox \cup {[msg |-> "Scan",
                              id |-> Cardinality(Launched) + Cardinality(PendingScans) + 1,
                              result |-> OkUnit]}
    /\ UNCHANGED <<disks, scanning, error_message, scan_count,
                   file_type_filter, file_name_filter, elapsed_time,
                   bg, exports, n_cmds, stopped, delivered>>

\* Lines 196-199.
FileTypeFilterChanged(new_filter) ==
    /\ file_type_filter' = new_filter
    /\ UNCHANGED <<disks, scanning, error_message, scan_duration, scan_count,
                   file_name_filter, elapsed_time, bg, inbox,
                   exports, n_cmds, stopped, delivered>>

\* Lines 200-203.
FileNameFilterChanged(new_filter) ==
    /\ file_name_filter' = new_filter
    /\ UNCHANGED <<disks, scanning, error_message, scan_duration, scan_count,
                   file_type_filter, elapsed_time, bg, inbox,
                   exports, n_cmds, stopped, delivered>>

Next ==
    \/ Scan /\ UNCHANGED <<collect, derived>>
    \/ ScanFromRefresh /\ UNCHANGED <<collect, derived>>
    \/ \E i \in ScanIds : ThreadScan(i) /\ UNCHANGED <<collect, derived>>
    \/ \E i \in ScanIds : ThreadSend(i) /\ UNCHANGED <<collect, derived>>
    \/ \E i \in ScanIds : Recv(i) /\ UNCHANGED <<collect, derived>>
    \/ StopScan /\ UNCHANGED <<collect, derived>>
    \/ \E m \in inbox : Scanned(m) /\ UNCHANGED <<collect, derived>>
    \/ Tick /\ UNCHANGED <<collect, derived>>
    \/ ExportAsJson /\ UNCHANGED <<collect, derived>>
    \/ ExportAsCsv /\ UNCHANGED <<collect, derived>>
    \/ \E x \in exports : RunExport(x) /\ UNCHANGED <<collect, derived>>
    \/ \E m \in inbox : ExportCompleted(m) /\ UNCHANGED <<collect, derived>>
    \/ Done /\ UNCHANGED <<collect, derived>>
    \/ Refresh /\ UNCHANGED <<collect, derived>>
    \/ \E f \in ExtFilters : FileTypeFilterChanged(f) /\ UNCHANGED <<collect, derived>>
    \/ \E f \in NameFilters : FileNameFilterChanged(f) /\ UNCHANGED <<collect, derived>>

Spec == Init /\ [][Next]_vars

\* ------------------------------------- one volume, worker by worker
app == <<disks, scanning, error_message, scan_duration, scan_count,
         file_type_filter, file_name_filter, elapsed_time,
         pipe, chan, fut, inbox, exports, n_cmds, stopped, delivered>>

\* What the k-th item of a walk may be: a regular file of some length, a
\* directory, an Err item, an entry whose stat fails.
EntryKinds(k) ==
    { Entry(<<k>>, TRUE, TRUE, TRUE, l) : l \in 0..MaxLen }
      \cup { Entry(<<k>>, TRUE, TRUE, FALSE, 0),
             Entry(<<k>>, FALSE, FALSE, FALSE, 0),
             Entry(<<k>>, TRUE, FALSE, TRUE, MaxLen) }

Trees ==
    UNION { { t \in [1..n -> UNION { EntryKinds(k) : k \in 1..n }] :
                \A k \in 1..n : t[k] \in EntryKinds(k) } : n \in 0..MaxEntries }

\* Lines 107-112: the empty buffer, the walk handed to the worker pool.
InitCollect ==
    /\ InitApp
    /\ tree \in Trees
    /\ walk = tree
    /\ worker = [w \in Workers |-> IdleWorker]
    /\ lock = 0
    /\ files = <<>>
    /\ cpc = "walking"
    /\ NoDerived

\* Take that gives the walk up at the first Err item.
Take_Mutant(w) ==
    /\ cpc = "walking"
    /\ worker[w].pc = "idle"
    /\ walk # <<>>
    /\ walk' = IF Head(walk).walk_ok THEN Tail(walk) ELSE <<>>
    /\ worker' = [worker EXCEPT ![w] =
                    IF Head(walk).walk_ok
                    THEN [pc |-> "stat", entry |-> Head(walk)]
                    ELSE IdleWorker]
    /\ UNCHANGED <<tree, lock, files, cpc>>

\* Lines 112-113: a worker takes the next item off the bridged iterator;
\* filter_map(|e| e.ok()) drops an Err item there and then.
Take(w) ==
    /\ cpc = "walking"
    /\ worker[w].pc = "idle"
    /\ walk # <<>>
    /\ walk' = Tail(walk)
    /\ worker' = [worker EXCEPT ![w] =
                    IF Head(walk).walk_ok
                    THEN [pc |-> "stat", entry |-> Head(walk)]
                    ELSE IdleWorker]
    /\ UNCHANGED <<tree, lock, files, cpc>>

\* Lines 115-121: fs::metadata(path), then metadata.is_file().
Stat(w) ==
    /\ worker[w].pc = "stat"
    /\ worker' = [worker EXCEPT ![w] =
                    IF worker[w].entry.stat_ok /\ worker[w].entry.is_file
                    THEN [@ EXCEPT !.pc = "lock"]
                    ELSE IdleWorker]
    /\ UNCHANGED <<tree, walk, lock, files, cpc>>

\* Line 122: files.lock() blocks until the mutex is free.
Lock(w) ==
    /\ worker[w].pc = "lock"
    /\ lock = 0
    /\ lock' = w
    /\ worker' = [worker EXCEPT ![w].pc = "push"]
    /\ UNCHANGED <<tree, walk, files, cpc>>

\* Push that writes at the last index it saw instead of appending: an
\* update is lost.
Push_Mutant(w) ==
    /\ worker[w].pc = "push"
    /\ files' = IF files = <<>>
                THEN <<FileInfo(worker[w].entry.path, worker[w].entry.len)>>
                ELSE [files EXCEPT ![Len(files)] =
                        FileInfo(worker[w].entry.path, worker[w].entry.len)]
    /\ lock' = 0
    /\ worker' = [worker EXCEPT ![w] = IdleWorker]
    /\ UNCHANGED <<tree, walk, cpc>>

\* Line 122: push(file_info); the guard is dropped at the end of the
\* statement.
Push(w) ==
    /\ worker[w].pc = "push"
    /\ files' = Append(files, FileInfo(worker[w].entry.path, worker[w].entry.len))
    /\ lock' = 0
    /\ worker' = [worker EXCEPT ![w] = IdleWorker]
    /\ UNCHANGED <<tree, walk, cpc>>

\* Join that returns as soon as the iterator is exhausted.
Join_Mutant ==
    /\ cpc = "walking"
    /\ walk = <<>>
    /\ cpc' = "joined"
    /\ UNCHANGED <<tree, walk, worker, lock, files>>

\* Line 125: for_each returns once the iterator is exhausted and every
\* worker has finished the item it took.
Join ==
    /\ cpc = "walking"
    /\ walk = <<>>
    /\ \A w \in Workers : worker[w].pc = "idle"
    /\ cpc' = "joined"
    /\ UNCHANGED <<tree, walk, worker, lock, files>>

\* Lines 127-128: the buffer is taken out of the Arc and the Mutex, and
\* sorted.
SortFiles ==
    /\ cpc = "joined"
    /\ files' = SortBySizeDesc(files)
    /\ cpc' = "sorted"
    /\ UNCHANGED <<tree, walk, worker, lock>>

NextCollect ==
    \/ \E w \in Workers : Take(w) /\ UNCHANGED <<app, derived>>
    \/ \E w \in Workers : Stat(w) /\ UNCHANGED <<app, derived>>
    \/ \E w \in Workers : Lock(w) /\ UNCHANGED <<app, derived>>
    \/ \E w \in Workers : Push(w) /\ UNCHANGED <<app, derived>>
    \/ Join /\ UNCHANGED <<app, derived>>
    \/ SortFiles /\ UNCHANGED <<app, derived>>

SpecCollect == InitCollect /\ [][NextCollect]_vars

\* ------------------------------------------------------------ view()
\* str::ends_with and str::contains on paths held as tuples of characters.
EndsWith(p, s) ==
    /\ Len(s) <= Len(p)
    /\ SubSeq(p, Len(p) - Len(s) + 1, Len(p)) = s

Contains(p, s) ==
    \E i \in 1..(Len(p) - Len(s) + 1) : SubSeq(p, i, i + Len(s) - 1) = s

\* Matches with the two tests joined by "or".
Matches_Mutant(file) ==
    \/ file_type_filter = <<>> \/ EndsWith(file.path, file_type_filter)
    \/ file_name_filter = <<>> \/ Contains(file.path, file_name_filter)

\* Lines 248-251: the closure given to filter.
Matches(file) ==
    /\ file_type_filter = <<>> \/ EndsWith(file.path, file_type_filter)
    /\ file_name_filter = <<>> \/ Contains(file.path, file_name_filter)

\* Lines 245-253: matching_files as collected, in the order of disk.files.
MatchingFiles(disk) == SelectSeq(disk.files, Matches)

\* TopFiles that takes one entry more.
TopFiles_Mutant(matching) ==
    LET sorted == SortBySizeDesc(matching)
    IN SubSeq(sorted, 1, IF Len(sorted) < Top + 1 THEN Len(sorted) ELSE Top + 1)

\* Lines 256-257: the stable sort, largest first (sizes are never NaN, so
\* unwrap_or(Equal) orders as the scan's sort does), then take(5).
TopFiles(matching) ==
    LET sorted == SortBySizeDesc(matching)
    IN SubSeq(sorted, 1, IF Len(sorted) < Top THEN Len(sorted) ELSE Top)

\* A fraction in lowest terms as far as powers of two go.
RECURSIVE Reduce(_)
Reduce(r) ==
    IF r.num # 0 /\ r.num % 2 = 0 /\ r.den % 2 = 0
    THEN Reduce(Ratio(r.num \div 2, r.den \div 2))
    ELSE r

\* format!("{:.2}", x) for x >= 0, as a number of hundredths: the exact
\* value rounded to two decimals, a tie going to the even digit.
Fmt2(x) ==
    LET r == Reduce(x)
        q == (r.num * 100) \div r.den
        m == (r.num * 100) % r.den
    IN IF 2 * m > r.den THEN q + 1
       ELSE IF 2 * m = r.den THEN q + (q % 2)
       ELSE q

\* Lines 261-265: size and unit of a shown file.
SizeUnit(size_mb) ==
    IF GBThreshold * size_mb.den <= size_mb.num
    THEN [size |-> Ratio(size_mb.num, size_mb.den * KiB), unit |-> "GB"]
    ELSE [size |-> size_mb, unit |-> "MB"]

\* Line 266: the text of one shown file.
FileLine(file) ==
    [path |-> file.path,
     size |-> Fmt2(SizeUnit(file.size_mb).size),
     unit |-> SizeUnit(file.size_mb).unit]

\* Lines 236-267: what is pushed for one disk; total_space is never zero
\* in a stored report, so the percentage is a number.
Panel(disk) ==
    LET matching == MatchingFiles(disk)
        top == TopFiles(matching)
    IN [name |-> disk.name,
        total_space |-> Fmt2(disk.total_space),
        used_space |-> Fmt2(disk.used_space),
        usage_percentage |-> Ratio(disk.used_space.num * Percent, disk.total_space.num),
        matching |-> matching,
        top |-> top,
        lines |-> [j \in 1..Len(top) |-> FileLine(top[j])]]

\* Lines 207-267: the disks are rendered only when no scan is running.
View ==
    /\ shown' = IF scanning THEN <<>>
                ELSE [k \in 1..Len(disks) |-> Panel(disks[k])]
    /\ UNCHANGED <<app, collect, requested, written>>

\* Stored reports to render: a first volume of up to MaxFiles files, each
\* with one of two names and one of two lengths, in the order the scan's
\* sort leaves, and a second volume of two files.
ViewStems == { <<"a">>, <<"a", "b">> }

ViewLens == { MiB, GBThreshold * MiB }

SlotNames == <<"1", "2", "3", "4", "5", "6", "7", "8">>

ViewChoices == ViewStems \X ViewLens

ViewFileLists ==
    UNION { { [k \in 1..n |-> FileInfo(<<SlotNames[k]>> \o c[k][1], c[k][2])] :
              c \in { d \in [1..n -> ViewChoices] :
                        \A k \in 1..(n - 1) : d[k + 1][2] <= d[k][2] } } :
            n \in 0..MaxFiles }

ViewSecond ==
    << FileInfo(<<"9", "b">>, GBThreshold * MiB), FileInfo(<<"9", "a">>, MiB) >>

ViewReports ==
    { <<>> } \cup
    { << DiskInfo(Volume("A", 8, 4, <<>>), fs),
         DiskInfo(Volume("B", 4, 1, <<>>), ViewSecond) >> : fs \in ViewFileLists }

\* The application after its first scan stored a report (or before any
\* scan), with any filters typed in.
InitView ==
    /\ disks \in ViewReports
    /\ scanning = FALSE
    /\ error_message = None
    /\ scan_duration = IF disks = <<>> THEN None ELSE Some(1)
    /\ scan_count = IF disks = <<>> THEN 0 ELSE 1
    /\ file_type_filter \in ExtFilters
    /\ file_name_filter \in NameFilters
    /\ elapsed_time = 0
    /\ pipe = [i \in ScanIds |->
                 IF i = 1 /\ disks # <<>>
                 THEN [IdlePipe EXCEPT !.pc = "sent"] ELSE IdlePipe]
    /\ chan = [i \in ScanIds |-> <<>>]
    /\ fut = [i \in ScanIds |-> IF i = 1 /\ disks # <<>> THEN "resolved" ELSE "none"]
    /\ inbox = {}
    /\ exports = {}
    /\ n_cmds = 0
    /\ stopped = {}
    /\ delivered = [i \in ScanIds |-> IF i = 1 /\ disks # <<>> THEN 1 ELSE 0]
    /\ NoCollect
    /\ NoDerived

NextView ==
    \/ View
    \/ Scan /\ UNCHANGED <<collect, derived>>

SpecView == InitView /\ [][NextView]_vars

\* ------------------------------------------------- the export functions
\* serde's derived Serialize for FileInfo and DiskInfo (lines 21-33): an
\* object with the struct's fields; a Vec is an array.
JsonFile(file) == [path |-> file.path, size_mb |-> file.size_mb]

JsonDisk(disk) ==
    [name |-> disk.name,
     total_space |-> disk.total_space,
     used_space |-> disk.used_space,
     files |-> [j \in 1..Len(disk.files) |-> JsonFile(disk.files[j])]]

ToJson(ds) == [k \in 1..Len(ds) |-> JsonDisk(ds[k])]

\* Lines 350-357: the record written for one file of one disk.
CsvRecord(disk, file) ==
    [name |-> disk.name,
     total_space |-> Fmt2(disk.total_space),
     used_space |-> Fmt2(disk.used_space),
     path |-> file.path,
     size |-> Fmt2(IF GBThreshold * file.size_mb.den <= file.size_mb.num
                   THEN Ratio(file.size_mb.num, file.size_mb.den * KiB)
                   ELSE file.size_mb),
     unit |-> IF GBThreshold * file.size_mb.den <= file.size_mb.num
              THEN "GB" ELSE "MB"]

\* Lines 348-359: the records in the order of the two loops.
RECURSIVE CsvRecords(_)
CsvRecords(ds) ==
    IF ds = <<>> THEN <<>>
    ELSE [j \in 1..Len(Head(ds).files) |-> CsvRecord(Head(ds), Head(ds).files[j])]
            \o CsvRecords(Tail(ds))

\* The future of an export resolves to Message::ExportCompleted(r).
Completes(x, r) ==
    /\ exports' = exports \ {x}
    /\ inbox' = inbox \cup {[msg |-> "ExportCompleted", id |-> x.id, result |-> r]}

\* WriteJson that serializes the report stored when it runs.
WriteJson_Mutant(x) ==
    /\ x \in exports
    /\ x.format = "json"
    /\ \/ /\ written' = [written EXCEPT ![x.id] =
                            [pc |-> "done", format |-> "json", body |-> ToJson(disks)]]
          /\ Completes(x, OkUnit)
       \/ /\ written' = [written EXCEPT ![x.id] =
                            [pc |-> "failed", format |-> "json", body |-> <<>>]]
          /\ \E e \in ExportErrors : Completes(x, Err(e))
    /\ UNCHANGED <<ui, scan_count, bg, n_cmds, stopped, delivered,
                   collect, shown, requested>>

\* Lines 341-344: export_to_json on the vector the command owns.  Either
\* the array is written, or File::create or the writer fails and the
\* function returns the error's text.
WriteJson(x) ==
    /\ x \in exports
    /\ x.format = "json"
    /\ \/ /\ written' = [written EXCEPT ![x.id] =
                            [pc |-> "done", format |-> "json", body |-> ToJson(x.disks)]]
          /\ Completes(x, OkUnit)
       \/ /\ written' = [written EXCEPT ![x.id] =
                            [pc |-> "failed", format |-> "json", body |-> <<>>]]
          /\ \E e \in ExportErrors : Completes(x, Err(e))
    /\ UNCHANGED <<ui, scan_count, bg, n_cmds, stopped, delivered,
                   collect, shown, requested>>

\* Line 347: File::create and the Writer over it, or the error returned.
CsvCreate(x) ==
    /\ x \in exports
    /\ x.format = "csv"
    /\ written[x.id].pc = "none"
    /\ \/ /\ written' = [written EXCEPT ![x.id] =
                            [pc |-> "open", format |-> "csv", body |-> <<>>]]
          /\ UNCHANGED <<exports, inbox>>
       \/ /\ written' = [written EXCEPT ![x.id] =
                            [pc |-> "failed", format |-> "csv", body |-> <<>>]]
          /\ \E e \in ExportErrors : Completes(x, Err(e))
    /\ UNCHANGED <<ui, scan_count, bg, n_cmds, stopped, delivered,
                   collect, shown, requested>>

\* Lines 348-358: one write_record, or its error returned.
CsvWriteRecord(x) ==
    /\ x \in exports
    /\ written[x.id].pc = "open"
    /\ Len(written[x.id].body) < Len(CsvRecords(x.disks))
    /\ \/ /\ written' = [written EXCEPT ![x.id].body =
                            Append(@, CsvRecords(x.disks)[Len(@) + 1])]
          /\ UNCHANGED <<exports, inbox>>
       \/ /\ written' = [written EXCEPT ![x.id].pc = "failed"]
          /\ \E e \in ExportErrors : Completes(x, Err(e))
    /\ UNCHANGED <<ui, scan_count, bg, n_cmds, stopped, delivered,
                   collect, shown, requested>>

\* Line 360: flush after the last record, and the function's result.
CsvFlush(x) ==
    /\ x \in exports
    /\ written[x.id].pc = "open"
    /\ Len(written[x.id].body) = Len(CsvRecords(x.disks))
    /\ \/ /\ written' = [written EXCEPT ![x.id].pc = "done"]
          /\ Completes(x, OkUnit)
       \/ /\ written' = [written EXCEPT ![x.id].pc = "failed"]
          /\ \E e \in ExportErrors : Completes(x, Err(e))
    /\ UNCHANGED <<ui, scan_count, bg, n_cmds, stopped, delivered,
                   collect, shown, requested>>

\* The application with its scans and exports; requested keeps, for every
\* export, the report that was stored when its request was handled.
NextExport ==
    \/ Scan /\ UNCHANGED <<collect, derived>>
    \/ \E i \in ScanIds : ThreadScan(i) /\ UNCHANGED <<collect, derived>>
    \/ \E i \in ScanIds : ThreadSend(i) /\ UNCHANGED <<collect, derived>>
    \/ \E i \in ScanIds : Recv(i) /\ UNCHANGED <<collect, derived>>
    \/ \E m \in inbox : Scanned(m) /\ UNCHANGED <<collect, derived>>
    \/ /\ ExportAsJson
       /\ requested' = Append(requested, disks)
       /\ UNCHANGED <<collect, shown, written>>
    \/ /\ ExportAsCsv
       /\ requested' = Append(requested, disks)
       /\ UNCHANGED <<collect, shown, written>>
    \/ \E x \in exports : WriteJson(x)
    \/ \E x \in exports : CsvCreate(x)
    \/ \E x \in exports : CsvWriteRecord(x)
    \/ \E x \in exports : CsvFlush(x)
    \/ \E m \in inbox : ExportCompleted(m) /\ UNCHANGED <<collect, derived>>
    \/ \E f \in ExtFilters : FileTypeFilterChanged(f) /\ UNCHANGED <<collect, derived>>
    \/ \E f \in NameFilters : FileNameFilterChanged(f) /\ UNCHANGED <<collect, derived>>

SpecExport == Init /\ [][NextExport]_vars

\* ------------------------------------------- the scans, fairly scheduled
\* The application for as long as it runs (no Done): the handlers that
\* touch a scan, the threads and the futures of the scans.
NextLive ==
    \/ Scan /\ UNCHANGED <<collect, derived>>
    \/ ScanFromRefresh /\ UNCHANGED <<collect, derived>>
    \/ \E i \in ScanIds : ThreadScan(i) /\ UNCHANGED <<collect, derived>>
    \/ \E i \in ScanIds : ThreadSend(i) /\ UNCHANGED <<collect, derived>>
    \/ \E i \in ScanIds : Recv(i) /\ UNCHANGED <<collect, derived>>
    \/ StopScan /\ UNCHANGED <<collect, derived>>
    \/ \E m \in inbox : Scanned(m) /\ UNCHANGED <<collect, derived>>
    \/ Tick /\ UNCHANGED <<collect, derived>>
    \/ Refresh /\ UNCHANGED <<collect, derived>>

\* The operating system runs every spawned thread (its walk terminates),
\* the executor polls every future whose channel holds a value, and the
\* runtime hands every produced message to update().
Fairness ==
    /\ \A i \in ScanIds : WF_vars(ThreadScan(i) /\ UNCHANGED <<collect, derived>>)
    /\ \A i \in ScanIds : WF_vars(ThreadSend(i) /\ UNCHANGED <<collect, derived>>)
    /\ \A i \in ScanIds : WF_vars(Recv(i) /\ UNCHANGED <<collect, derived>>)
    /\ WF_vars(\E m \in inbox : Scanned(m) /\ UNCHANGED <<collect, derived>>)

SpecLive == Init /\ [][NextLive]_vars /\ Fairness

\* ------------------------------------------------------- the claims

\* C1: the result of a scan that was in flight when StopScan was handled
\* is discarded when it arrives: handling it leaves the stored report, the
\* scan duration and the error slot as they were.
C1_StoppedResultDiscarded ==
    [][\A m \in inbox :
          (Scanned(m) /\ m.id \in stopped)
             => UNCHANGED <<disks, scan_duration, error_message>>]_vars

\* The Scanned messages of scan i that wait in the update loop's queue.
ScannedOf(i) == { m \in inbox : m.msg = "Scanned" /\ m.id = i }

\* C2: for every Scan request, the Scanned messages handled by update()
\* and those queued for it are at most one in all, at every moment.
C2_AtMostOneScanned ==
    \A i \in ScanIds : delivered[i] + Cardinality(ScannedOf(i)) <= 1

\* Both scans were in flight together when StopScan was handled, an export
\* ran, and both results were handled.
C2_Witness ==
    /\ stopped = ScanIds
    /\ n_cmds > 0
    /\ \A i \in ScanIds : delivered[i] = 1

\* C3: a thread's result is the failure exactly when no disk it enumerated
\* has capacity above zero (a disk with capacity and no file gives a
\* success), the failure carries the fixed message, and handling it clears
\* the scanning flag, puts the message in the error slot and leaves the
\* stored report and the duration unchanged.
C3_FailureIffNoReport ==
    /\ [](\A i \in ScanIds : pipe[i].pc = "counted" =>
            /\ (~pipe[i].result.ok) <=>
                  (\A k \in 1..Len(pipe[i].sys) : pipe[i].sys[k].total <= 0)
            /\ (~pipe[i].result.ok) => pipe[i].result = Err(ScanFailedMessage))
    /\ [][\A m \in inbox :
            (Scanned(m) /\ ~m.result.ok) =>
                /\ scanning' = FALSE
                /\ error_message' = Some("Failed to retrieve disk information")
                /\ UNCHANGED <<disks, scan_duration>>]_vars

\* A failure was handled and the report stored before it is still there;
\* that report is the success of a disk with capacity and no file.
C3_Witness ==
    /\ error_message = Some(ScanFailedMessage)
    /\ ~scanning
    /\ Len(disks) = 1
    /\ disks[1].files = <<>>
    /\ scan_duration # None

\* C4: handling Scan sets the scanning flag, clears the error slot and the
\* duration, resets the elapsed time, leaves the stored report and the scan
\* counter unchanged, and spawns exactly one thread, which has not run
\* when the step ends.
C4_ScanEffect ==
    [][(Scan \/ ScanFromRefresh) =>
          /\ scanning' = TRUE
          /\ error_message' = None
          /\ scan_duration' = None
          /\ elapsed_time' = 0
          /\ UNCHANGED <<disks, scan_count, chan>>
          /\ \E i \in ScanIds :
                /\ pipe[i].pc = "idle"
                /\ pipe'[i].pc = "spawned"
                /\ fut'[i] = "waiting"
                /\ \A j \in ScanIds \ {i} : pipe'[j] = pipe[j] /\ fut'[j] = fut[j]]_vars

\* A second Scan has just been handled over a stored report.
C4_Witness ==
    /\ scanning
    /\ disks # <<>>
    /\ error_message = None
    /\ scan_duration = None
    /\ elapsed_time = 0
    /\ pipe[2].pc = "spawned"
    /\ delivered[1] = 1

\* C5: handling StopScan clears the scanning flag and changes nothing
\* else: report, error slot, duration, elapsed time, filters, scan counter,
\* the threads, their channels and the pending commands stay as they are.
C5_StopScanEffect ==
    [][StopScan =>
          /\ scanning' = FALSE
          /\ UNCHANGED <<disks, error_message, scan_duration, elapsed_time,
                         file_type_filter, file_name_filter, scan_count,
                         pipe, chan, fut, inbox, exports>>]_vars

\* StopScan was handled after a tick, with a thread spawned and not yet
\* run, and filters set.
C5_Witness ==
    /\ ~scanning
    /\ 1 \in stopped
    /\ pipe[1].pc = "spawned"
    /\ elapsed_time > 0
    /\ file_type_filter # <<>>

\* The disks of sys with capacity above zero, in the order of sys.
RECURSIVE Qualifying(_)
Qualifying(sys) ==
    IF sys = <<>> THEN <<>>
    ELSE IF Head(sys).total > 0
         THEN <<Head(sys)>> \o Qualifying(Tail(sys))
         ELSE Qualifying(Tail(sys))

\* C6: the reports a thread built are, in order, those of the enumerated
\* disks with capacity above zero: one each, none for the others.
C6_OneReportPerQualifyingVolume ==
    \A i \in ScanIds : pipe[i].pc = "counted" =>
        LET q == Qualifying(pipe[i].sys)
            r == pipe[i].result.disks
        IN /\ Len(r) = Len(q)
           /\ \A k \in 1..Len(q) :
                 /\ r[k].name = q[k].name
                 /\ r[k].total_space = Ratio(q[k].total, GiB)

\* A thread enumerated three disks, the middle one without capacity, and
\* built two reports.
C6_Witness ==
    \E i \in ScanIds :
        /\ pipe[i].pc = "counted"
        /\ Len(pipe[i].sys) = 3
        /\ pipe[i].sys[2].total = 0
        /\ pipe[i].result.ok
        /\ Len(pipe[i].result.disks) = 2

\* The tree holds no Err item and no entry whose stat fails.
NoFailing(t) == \A k \in 1..Len(t) : t[k].walk_ok /\ t[k].stat_ok

\* C7: over a tree with N regular files and no failing entry, the buffer
\* the workers leave holds N entries, each file exactly once.
C7_ExactlyNEntries ==
    (cpc \in {"joined", "sorted"} /\ NoFailing(tree)) =>
        LET regular == { k \in 1..Len(tree) : tree[k].is_file } IN
        /\ Len(files) = Cardinality(regular)
        /\ \A k \in regular :
              Cardinality({ p \in 1..Len(files) : files[p].path = tree[k].path }) = 1

\* The workers joined over three regular files, appended out of walk order.
C7_Witness ==
    /\ cpc = "joined"
    /\ NoFailing(tree)
    /\ Len(tree) = 3
    /\ \A k \in 1..3 : tree[k].is_file
    /\ Len(files) = 3
    /\ files[1].path # tree[1].path

\* No entry of fs is larger than one before it.
SortedDesc(fs) ==
    \A a, b \in 1..Len(fs) :
        a < b => fs[b].size_mb.num * fs[a].size_mb.den
                    <= fs[a].size_mb.num * fs[b].size_mb.den

\* C8: in every result a thread sends and every report stored from one,
\* each volume's files are in non-increasing order of size.
C8_ReportsSorted ==
    /\ \A m \in inbox : m.msg = "Scanned" =>
          \A k \in 1..Len(m.result.disks) : SortedDesc(m.result.disks[k].files)
    /\ \A k \in 1..Len(disks) : SortedDesc(disks[k].files)

\* A report with two files of different sizes is stored.
C8_Witness ==
    \E k \in 1..Len(disks) :
        /\ Len(disks[k].files) >= 2
        /\ disks[k].files[1].size_mb # disks[k].files[2].size_mb

\* C9: a failing entry is skipped and nothing else: the walk reaches its
\* end, the buffer holds exactly the entries that are regular files and
\* statted, and the volume's report alone makes the outcome a success.
C9_FailuresOnlySkip ==
    cpc \in {"joined", "sorted"} =>
        LET good == { k \in 1..Len(tree) :
                        tree[k].walk_ok /\ tree[k].stat_ok /\ tree[k].is_file }
        IN /\ walk = <<>>
           /\ Len(files) = Cardinality(good)
           /\ { files[p] : p \in 1..Len(files) }
                 = { [path |-> tree[k].path,
                      size_mb |-> [num |-> tree[k].len, den |-> MiB]] : k \in good }
           /\ Outcome(<<DiskInfo(Volume("V", 1, 0, tree), files)>>, 1).ok

\* The workers joined over an Err item, then an entry whose stat fails,
\* then a regular file, which was collected.
C9_Witness ==
    /\ cpc = "joined"
    /\ Len(tree) = 3
    /\ ~tree[1].walk_ok
    /\ tree[2].walk_ok /\ ~tree[2].stat_ok
    /\ tree[3].walk_ok /\ tree[3].stat_ok /\ tree[3].is_file
    /\ Len(files) = 1

\* C10: handling Refresh clears the scan duration and the stored report,
\* and leaves one more Scan message on its way to update().
C10_RefreshClearsReport ==
    [][Refresh =>
          /\ scan_duration' = None
          /\ disks' = <<>>
          /\ Cardinality(PendingScans') = Cardinality(PendingScans) + 1]_vars

\* C12: handling an export's completion leaves the scanning flag, the
\* stored report, the duration, the elapsed time and the scan counter
\* unchanged, and makes the error slot the export's outcome: its message
\* on failure, empty on success.
C12_ExportCompletedEffect ==
    [][\A m \in inbox :
          ExportCompleted(m) =>
             /\ UNCHANGED <<scanning, disks, scan_duration, elapsed_time, scan_count>>
             /\ m.result.ok => error_message' = <<>>
             /\ ~m.result.ok => error_message' = <<m.result.err>>]_vars

\* An export failed while a scan was running over a stored report: the
\* scan state is as it was and the slot holds the export's message.
C12_Witness ==
    /\ scanning
    /\ disks # <<>>
    /\ elapsed_time > 0
    /\ error_message = <<"export failed">>
    /\ n_cmds = 1
    /\ exports = {}
    /\ \A m \in inbox : m.msg # "ExportCompleted"

\* C15: the result of a scan that was still in flight when a later Scan
\* was handled is discarded when it arrives: the stored report and the
\* duration stay, and the flag stays while the later scan is running.
C15_SupersededResultDiscarded ==
    [][\A m \in inbox :
          (Scanned(m) /\ \E j \in ScanIds : j > m.id /\ pipe[j].pc # "idle") =>
             /\ UNCHANGED <<disks, scan_duration>>
             /\ (\E j \in ScanIds : j > m.id /\ InFlight(j)) => scanning' = scanning]_vars

\* The threads that have passed their fetch_add.
Finished == { i \in ScanIds : pipe[i].pc \in {"counted", "sent"} }

\* C17: the scan counter is the number of threads that have finished, no
\* less than the results handled and no more than the Scan requests
\* handled; it never decreases, and it changes only by one, in the step
\* in which a thread finishes.
C17_ScanCounter ==
    /\ [](/\ scan_count = Cardinality(Finished)
          /\ scan_count >= Cardinality({ i \in ScanIds : delivered[i] > 0 })
          /\ scan_count <= Cardinality(Launched))
    /\ [][scan_count' >= scan_count]_vars
    /\ [][scan_count' # scan_count =>
            /\ scan_count' = scan_count + 1
            /\ \E i \in ScanIds : pipe[i].pc = "spawned" /\ pipe'[i].pc = "counted"]_vars

\* Two overlapping scans have both finished and neither result is handled.
C17_Witness ==
    /\ scan_count = 2
    /\ pipe[1].pc = "counted"
    /\ pipe[2].pc = "counted"
    /\ \A i \in ScanIds : delivered[i] = 0

\* C18: a Tick adds one to the elapsed time when the scanning flag is set
\* and nothing when it is not, and touches nothing else; the elapsed time
\* changes otherwise only by a Scan, to zero, and the flag is raised only
\* by a Scan: while scanning, the elapsed time counts the ticks since the
\* last Scan.
C18_TickEffect ==
    /\ [][Tick =>
            /\ scanning => elapsed_time' = elapsed_time + 1
            /\ ~scanning => elapsed_time' = elapsed_time
            /\ UNCHANGED <<scanning, disks, error_message, scan_duration,
                           scan_count>>]_vars
    /\ [][elapsed_time' # elapsed_time =>
            \/ scanning /\ elapsed_time' = elapsed_time + 1 /\ Tick
            \/ elapsed_time' = 0 /\ (Scan \/ ScanFromRefresh)]_vars
    /\ [][(scanning' /\ ~scanning) => (Scan \/ ScanFromRefresh)]_vars

\* Two ticks were counted during the second scan.
C18_Witness ==
    /\ scanning
    /\ elapsed_time = 2
    /\ pipe[2].pc # "idle"

\* C20: every volume of the stored report has capacity above zero, and a
\* duration is present only with a non-empty report.
C20_StoredReportSound ==
    /\ \A k \in 1..Len(disks) : disks[k].total_space.num > 0
    /\ scan_duration # <<>> => disks # <<>>

\* A report of two volumes is stored with its duration, from an
\* enumeration that held a disk without capacity.
C20_Witness ==
    /\ Len(disks) = 2
    /\ scan_duration # <<>>
    /\ ~scanning

\* The workers inside files.lock().unwrap().push(..).
Holders == { w \in Workers : worker[w].pc = "push" }

\* C16: within one volume's collection the buffer is sorted and read only
\* after every worker has finished: once for_each has returned no worker
\* holds an entry or the lock and nothing is appended any more; at most
\* one worker holds the lock at any time, and a holder releases it in the
\* step in which it appends its one entry.
C16_SortAfterAppends ==
    /\ [](/\ cpc \in {"joined", "sorted"} =>
               /\ walk = <<>>
               /\ lock = 0
               /\ \A w \in Workers : worker[w].pc = "idle"
          /\ Cardinality(Holders) <= 1
          /\ \A w \in Workers : w \in Holders <=> lock = w)
    /\ [][(cpc = "joined" \/ cpc = "sorted") =>
            \/ files' = files
            \/ (cpc = "joined" /\ cpc' = "sorted" /\ Len(files') = Len(files))]_vars
    /\ [][lock # 0 =>
            \/ lock' = lock /\ files' = files
            \/ /\ lock' = 0
               /\ Len(files') = Len(files) + 1
               /\ (\A k \in 1..Len(files) : files'[k] = files[k])]_vars

\* Three entries were appended by two workers and the buffer was sorted
\* after them.
C16_Witness ==
    /\ cpc = "sorted"
    /\ Len(files) = 3
    /\ Len(tree) = 3

\* The positions in the files of volume k whose path ends with the
\* extension filter and contains the name filter.
Passing(k) ==
    { j \in 1..Len(disks[k].files) :
        /\ \E u \in 0..Len(disks[k].files[j].path) :
              disks[k].files[j].path =
                 SubSeq(disks[k].files[j].path, 1, u) \o file_type_filter
        /\ \E u, v \in 0..Len(disks[k].files[j].path) :
              disks[k].files[j].path =
                 SubSeq(disks[k].files[j].path, 1, u) \o file_name_filter
                    \o SubSeq(disks[k].files[j].path,
                              Len(disks[k].files[j].path) - v + 1,
                              Len(disks[k].files[j].path)) }

\* C13: for every volume the view renders, the filtered entries are
\* exactly the volume's files whose path ends with the extension filter
\* and contains the name filter, each once and in the files' order; an
\* empty filter lets every entry pass, the result is drawn from the
\* volume's files, is all of them when both filters are empty, and the
\* stored report is unchanged.
C13_FilteredSet ==
    [][(View /\ ~scanning) =>
         /\ Len(shown') = Len(disks)
         /\ \A k \in 1..Len(disks) :
              /\ Len(shown'[k].matching) = Cardinality(Passing(k))
              /\ \A j \in Passing(k) :
                    \E i \in 1..Len(shown'[k].matching) :
                       shown'[k].matching[i] = disks[k].files[j]
              /\ \A i \in 1..Len(shown'[k].matching) :
                    \E j \in Passing(k) : shown'[k].matching[i] = disks[k].files[j]
              /\ \A a, b \in 1..Len(shown'[k].matching) :
                    a < b =>
                       \E i, j \in 1..Len(disks[k].files) :
                          /\ i < j
                          /\ disks[k].files[i] = shown'[k].matching[a]
                          /\ disks[k].files[j] = shown'[k].matching[b]
              /\ (file_type_filter = <<>> /\ file_name_filter = <<>>) =>
                    shown'[k].matching = disks[k].files
              /\ file_type_filter = <<>> =>
                    \A j \in 1..Len(disks[k].files) :
                       j \in Passing(k) <=>
                          Contains(disks[k].files[j].path, file_name_filter)
              /\ file_name_filter = <<>> =>
                    \A j \in 1..Len(disks[k].files) :
                       j \in Passing(k) <=>
                          EndsWith(disks[k].files[j].path, file_type_filter)
         /\ UNCHANGED disks]_vars

\* Both filters are set and the first volume's rendered entries are some
\* but not all of its six files.
C13_Witness ==
    /\ ~scanning
    /\ file_type_filter # <<>>
    /\ file_name_filter # <<>>
    /\ Len(shown) = 2
    /\ Len(disks[1].files) = 6
    /\ Len(shown[1].matching) \in 1..5
    /\ shown[1].matching = MatchingFiles(disks[1])

\* C14: for every volume the view renders, it shows min(5, number of
\* matching entries) entries, in non-increasing size order, each of them
\* a matching entry, and every shown entry is at least as large as every
\* matching entry that is not shown.
C14_TopFive ==
    [][(View /\ ~scanning) =>
         \A k \in 1..Len(disks) :
            LET top == shown'[k].top
                n == Cardinality(Passing(k))
            IN /\ Len(top) = IF n < 5 THEN n ELSE 5
               /\ Len(shown'[k].lines) = Len(top)
               /\ \A a \in 1..Len(top) :
                     /\ \E j \in Passing(k) : top[a] = disks[k].files[j]
                     /\ shown'[k].lines[a].path = top[a].path
               /\ \A a, b \in 1..Len(top) :
                     a < b =>
                        /\ top[a] # top[b]
                        /\ Leq(top[b].size_mb, top[a].size_mb)
               /\ \A j \in Passing(k) :
                     (\A a \in 1..Len(top) : top[a] # disks[k].files[j]) =>
                        \A a \in 1..Len(top) :
                           Leq(disks[k].files[j].size_mb, top[a].size_mb)]_vars

\* Six files match a filter, five of them are shown, the first in GB and
\* the last in MB, and the sixth is left out.
C14_Witness ==
    /\ ~scanning
    /\ file_name_filter # <<>>
    /\ Len(shown) = 2
    /\ Len(shown[1].matching) = 6
    /\ shown[1].matching = MatchingFiles(disks[1])
    /\ Len(shown[1].top) = 5
    /\ shown[1].lines[1].unit = "GB"
    /\ shown[1].lines[5].unit = "MB"

\* The number of files in all the volumes of a report.
RECURSIVE FileCount(_)
FileCount(report) ==
    IF report = <<>> THEN 0
    ELSE Len(Head(report).files) + FileCount(Tail(report))

\* C11: what a successful export has written is the full report that was
\* stored when its request was handled, whatever the filters and whatever
\* results arrived since: the JSON array has one object per volume, in
\* order, with all the volume's files; the CSV has exactly one row per
\* file of every volume; for an empty report the array is empty and the
\* CSV has no row.
C11_ExportWritesStoredReport ==
    \A id \in 1..Len(requested) :
       written[id].pc = "done" =>
          LET report == requested[id]
              body == written[id].body
          IN /\ report = <<>> => body = <<>>
             /\ written[id].format = "json" =>
                   /\ Len(body) = Len(report)
                   /\ \A k \in 1..Len(report) :
                         /\ body[k].name = report[k].name
                         /\ body[k].total_space = report[k].total_space
                         /\ body[k].used_space = report[k].used_space
                         /\ Len(body[k].files) = Len(report[k].files)
                         /\ \A j \in 1..Len(report[k].files) :
                               /\ body[k].files[j].path = report[k].files[j].path
                               /\ body[k].files[j].size_mb = report[k].files[j].size_mb
             /\ written[id].format = "csv" =>
                   /\ Len(body) = FileCount(report)
                   /\ \A k \in 1..Len(report) :
                         \A j \in 1..Len(report[k].files) :
                            Cardinality({ i \in 1..Len(body) :
                                            /\ body[i].name = report[k].name
                                            /\ body[i].path = report[k].files[j].path })
                               = 1

\* A CSV export requested over a stored report of two files, with a
\* filter set, has written both rows after a later scan's result replaced
\* the stored report.
C11_Witness ==
    /\ Len(requested) = 1
    /\ written[1].pc = "done"
    /\ written[1].format = "csv"
    /\ Len(written[1].body) = 2
    /\ requested[1] # disks
    /\ file_type_filter # <<>>
    /\ \A i \in ScanIds : delivered[i] = 1

\* C19: under fair scheduling every Scan request that was handled is
\* followed by its Scanned result being handled; handling a result
\* clears the scanning flag, and the flag is set only while some result
\* is outstanding, so that it is false once the last one is handled.
C19_EveryScanCompletes ==
    /\ \A i \in ScanIds : (pipe[i].pc # "idle") ~> (delivered[i] = 1)
    /\ [](scanning => \E i \in ScanIds : InFlight(i))
    /\ [][\A m \in inbox : Scanned(m) => scanning' = FALSE]_vars

\* Both scans overlapped, both results were handled and the flag is down.
C19_Witness ==
    /\ \A i \in ScanIds : delivered[i] = 1
    /\ ~scanning
    /\ stopped = {}
    /\ scan_count = 2
    /\ elapsed_time > 0

====
